---- MODULE Spec2Model ----
(***************************************************************************)
(* Model of adapters/tlsio_openssl_compact.c: the single static TLS client *)
(* connection (tlsio_static_instance), its API (create, destroy, open,     *)
(* close, send, dowork) and the two loops it runs (the SSL_connect retry   *)
(* loop of create_and_connect_ssl and the SSL_write loop of                *)
(* tlsio_openssl_send).  API calls are serialized: a call starts only when *)
(* the previous one has returned (pc = "idle").  The socket provider and   *)
(* the TLS library are the environment: their results are chosen with \E.  *)
(* Pointers are modelled by BOOLEAN "is non-NULL" flags.                   *)
(***************************************************************************)
EXTENDS Integers, Sequences, FiniteSets, TLC

\* ------------------------------------------------------------------ bounds
\* descriptors the socket provider can hand out: 0 .. MaxFd-1
MaxFd == 2
\* SSL and SSL_CTX objects the TLS library can hold allocated at once
MaxObj == 2
\* largest size argument given to send()
MaxSize == 2
\* longest run of want-read/want-write answers inside one send()
MaxWant == 1

\* --------------------------------------------------------- program constants
MAX_RETRY == 20

\* TLSIO_STATE
TLSIO_STATE_NOT_OPEN == "NOT_OPEN"
TLSIO_STATE_OPENING == "OPENING"
TLSIO_STATE_OPEN == "OPEN"
TLSIO_STATE_CLOSING == "CLOSING"
TLSIO_STATE_ERROR == "ERROR"
TLSIO_STATE ==
    { TLSIO_STATE_NOT_OPEN, TLSIO_STATE_OPENING, TLSIO_STATE_OPEN,
      TLSIO_STATE_CLOSING, TLSIO_STATE_ERROR }

\* __FAILURE__ is __LINE__: some non-zero int
FAILURE == 1

\* SSL_get_error results that the send loop tells apart
SSL_ERROR_NONE == "SSL_ERROR_NONE"
SSL_ERROR_WANT_READ == "SSL_ERROR_WANT_READ"
SSL_ERROR_WANT_WRITE == "SSL_ERROR_WANT_WRITE"
SSL_ERROR_SSL == "SSL_ERROR_SSL"
SSL_ERRORS ==
    { SSL_ERROR_NONE, SSL_ERROR_WANT_READ, SSL_ERROR_WANT_WRITE, SSL_ERROR_SSL }

IO_SEND_OK == "IO_SEND_OK"
IO_SEND_ERROR == "IO_SEND_ERROR"

VARIABLES
    tlsio_static_instance,  \* the TLS_IO_INSTANCE fields the code reads/writes
    openSocks,              \* socket provider: descriptors currently open
    liveSsl,                \* TLS library: SSL objects allocated, not freed
    liveCtx,                \* TLS library: SSL_CTX objects allocated, not freed
    pc,                     \* "idle", or the loop the running call is in
    op,                     \* the API call running or last returned
    args,                   \* its arguments
    ret,                    \* its int return value (meaningful when pc = "idle")
    handle,                 \* create: the returned handle is non-NULL
    preState,               \* tlsio_state when the call was entered
    ev,                     \* callbacks and library calls made by the call
    retry,                  \* create_and_connect_ssl: retry
    nConnect,               \* SSL_connect calls made by the call
    connectOK,              \* some SSL_connect of the call returned 0
    size,                   \* tlsio_openssl_send: size (remaining)
    total_written,          \* tlsio_openssl_send: total_written
    bytes_to_send,          \* tlsio_openssl_send: bytes_to_send
    wants,                  \* want-read/want-write answers in a row
    lastWrite,              \* offset and length of the last SSL_write
    lastRes,                \* what the last SSL_write of the call returned
    sumWritten,             \* sum of the positive SSL_write results of the call
    sinceOpen               \* "open": an open() has returned 0 and no close(),
                            \* destroy() or create() was called since;
                            \* "open_create": the same, but for a create();
                            \* "no": otherwise

vars ==
    << tlsio_static_instance, openSocks, liveSsl, liveCtx, pc, op, args, ret,
       handle, preState, ev, retry, nConnect, connectOK, size, total_written,
       bytes_to_send, wants, lastWrite, lastRes, sumWritten, sinceOpen >>

\* the instance as tlsio_openssl_create leaves it on success
CreatedInstance ==
    [ on_bytes_received |-> FALSE, on_io_open_complete |-> FALSE,
      on_io_close_complete |-> FALSE, on_io_error |-> FALSE,
      ssl |-> FALSE, ssl_context |-> FALSE,
      tlsio_state |-> TLSIO_STATE_NOT_OPEN, hostname |-> TRUE, sock |-> -1 ]

\* the instance after memset(result, 0, sizeof(TLS_IO_INSTANCE))
ZeroedInstance ==
    [ on_bytes_received |-> FALSE, on_io_open_complete |-> FALSE,
      on_io_close_complete |-> FALSE, on_io_error |-> FALSE,
      ssl |-> FALSE, ssl_context |-> FALSE,
      tlsio_state |-> TLSIO_STATE_NOT_OPEN, hostname |-> FALSE, sock |-> 0 ]

NoArgs ==
    [ on_io_open_complete |-> FALSE, on_bytes_received |-> FALSE,
      on_io_error |-> FALSE, on_io_close_complete |-> FALSE,
      buffer |-> FALSE, size |-> 0, on_send_complete |-> FALSE,
      config |-> FALSE ]

\* ------------------------------------------------------------ the "world"
\* The handlers are written as operators on a record w holding the instance,
\* the environment's resources and the log of the running call.
World ==
    [ inst |-> tlsio_static_instance, openSocks |-> openSocks,
      liveSsl |-> liveSsl, liveCtx |-> liveCtx, ev |-> ev ]

\* a callback or a library call is made: logged with the state at that time
Log(w, name, arg, n) ==
    [ w EXCEPT !.ev = Append(@, [ e |-> name, st |-> w.inst.tlsio_state,
                                  arg |-> arg, n |-> n ]) ]

SetState(w, s) == [ w EXCEPT !.inst.tlsio_state = s ]

\* if (cb != NULL) cb(ctx, ...)
InvokeIfSet(w, cb, name, arg, n) == IF cb THEN Log(w, name, arg, n) ELSE w

\* number of log entries named name
RECURSIVE CountEv(_, _)
CountEv(log, name) ==
    IF log = << >> THEN 0
    ELSE (IF Head(log).e = name THEN 1 ELSE 0) + CountEv(Tail(log), name)

\* the socket-closing test of destroy_openssl_connection_members
SockNeedsClose(sock) == sock < 0

\* SSL_Socket_Close(sock) at the provider: closes sock if it is open
SocketClose(w, sock) ==
    [ Log(w, "SSL_Socket_Close", "", sock) EXCEPT !.openSocks = @ \ {sock} ]

\* a bug destroy_openssl_connection_members could have: the session is kept
destroy_openssl_connection_members_KeepsSession(w) ==
    LET w2 == IF w.inst.ssl_context
              THEN [ Log(w, "SSL_CTX_free", "", 0) EXCEPT
                       !.liveCtx = @ - 1, !.inst.ssl_context = FALSE ]
              ELSE w
    IN  IF SockNeedsClose(w2.inst.sock)
        THEN [ SocketClose(w2, w2.inst.sock) EXCEPT !.inst.sock = -1 ]
        ELSE w2

destroy_openssl_connection_members(w) ==
    LET w1 == IF w.inst.ssl
              THEN [ Log(w, "SSL_free", "", 0) EXCEPT
                       !.liveSsl = @ - 1, !.inst.ssl = FALSE ]
              ELSE w
        w2 == IF w1.inst.ssl_context
              THEN [ Log(w1, "SSL_CTX_free", "", 0) EXCEPT
                       !.liveCtx = @ - 1, !.inst.ssl_context = FALSE ]
              ELSE w1
        w3 == IF SockNeedsClose(w2.inst.sock)
              THEN [ SocketClose(w2, w2.inst.sock) EXCEPT !.inst.sock = -1 ]
              ELSE w2
    IN  w3

\* the variables a world record carries
Commit(w) ==
    /\ tlsio_static_instance' = w.inst
    /\ openSocks' = w.openSocks
    /\ liveSsl' = w.liveSsl
    /\ liveCtx' = w.liveCtx
    /\ ev' = w.ev

\* a call is entered: its bookkeeping starts afresh
Enter(name, a) ==
    /\ pc = "idle"
    /\ op' = name
    /\ args' = a
    /\ preState' = tlsio_static_instance.tlsio_state

Fresh == [ World EXCEPT !.ev = << >> ]

\* no SSL_write was made yet
NoWrite == [ res |-> 0, err |-> "" ]

NoLoopVars ==
    /\ retry' = 0
    /\ nConnect' = 0
    /\ connectOK' = FALSE
    /\ size' = 0
    /\ total_written' = 0
    /\ bytes_to_send' = 0
    /\ wants' = 0
    /\ lastWrite' = << 0, 0 >>
    /\ lastRes' = NoWrite
    /\ sumWritten' = 0

\* --------------------------------------------------------------- Init
Init ==
    /\ tlsio_static_instance = CreatedInstance
    /\ openSocks = {}
    /\ liveSsl = 0
    /\ liveCtx = 0
    /\ pc = "idle"
    /\ op = "create"
    /\ args = [ NoArgs EXCEPT !.config = TRUE ]
    /\ ret = 0
    /\ handle = TRUE
    /\ preState = TLSIO_STATE_NOT_OPEN
    /\ ev = << >>
    /\ retry = 0
    /\ nConnect = 0
    /\ connectOK = FALSE
    /\ size = 0
    /\ total_written = 0
    /\ bytes_to_send = 0
    /\ wants = 0
    /\ lastWrite = << 0, 0 >>
    /\ lastRes = NoWrite
    /\ sumWritten = 0
    /\ sinceOpen = "no"

\* the call returns r with the world w
Return(w, r) ==
    /\ Commit(w)
    /\ ret' = r
    /\ pc' = "idle"
    /\ NoLoopVars

\* ------------------------------------------------- tlsio_openssl_create
tlsio_openssl_create(config, copyOK) ==
    /\ Enter("create", [ NoArgs EXCEPT !.config = config ])
    /\ IF ~config
       THEN /\ Return(Fresh, 0)
            /\ handle' = FALSE
       ELSE IF ~copyOK
       THEN /\ Return([ Fresh EXCEPT !.inst = ZeroedInstance ], 0)
            /\ handle' = FALSE
       ELSE /\ Return([ Fresh EXCEPT !.inst = CreatedInstance ], 0)
            /\ handle' = TRUE
    /\ sinceOpen' = IF sinceOpen = "no" THEN "no" ELSE "open_create"

\* ------------------------------------------------ tlsio_openssl_destroy
tlsio_openssl_destroy ==
    /\ Enter("destroy", NoArgs)
    /\ Return([ Fresh EXCEPT !.inst.hostname = FALSE ], 0)
    /\ sinceOpen' = "no"
    /\ UNCHANGED handle

\* --------------------------------------------------- tlsio_openssl_open
\* a bug OpenStateInvalid could have: only a running open() is refused
OpenStateInvalid_OnlyOpening(s) == s = TLSIO_STATE_OPENING

\* a bug OpenStateInvalid could have: a failed connection may be reopened
OpenStateInvalid_ReopenAfterError(s) ==
    s # TLSIO_STATE_NOT_OPEN /\ s # TLSIO_STATE_ERROR

\* the state test of tlsio_openssl_open
OpenStateInvalid(s) == s # TLSIO_STATE_NOT_OPEN

\* a bug OpenFailed could have: the error callback is not invoked
OpenFailed_NoErrorCallback(w) ==
    SetState(destroy_openssl_connection_members(w), TLSIO_STATE_ERROR)

\* a bug OpenFailed could have: the state is left as the handshake had it
OpenFailed_StateLeft(w) ==
    LET w1 == destroy_openssl_connection_members(w)
    IN  InvokeIfSet(w1, w1.inst.on_io_error, "on_io_error", "", 0)

\* tlsio_openssl_open after send_handshake_bytes() != 0, which is
\* create_and_connect_ssl() != 0 and so after its result != 0 unwinding
OpenFailed(w) ==
    LET w1 == destroy_openssl_connection_members(w)
        w2 == SetState(w1, TLSIO_STATE_ERROR)
    IN  InvokeIfSet(w2, w2.inst.on_io_error, "on_io_error", "", 0)

\* create_and_connect_ssl storing the session, then send_handshake_bytes and
\* tlsio_openssl_open after a successful handshake
OpenSucceeded(w) ==
    LET w1 == [ w EXCEPT !.inst.ssl = TRUE, !.inst.ssl_context = TRUE ]
        w2 == SetState(w1, TLSIO_STATE_OPEN)
        w3 == InvokeIfSet(w2, w2.inst.on_io_open_complete,
                          "on_io_open_complete", "IO_OPEN_OK", 0)
    IN  SetState(w3, TLSIO_STATE_OPEN)

\* what the socket provider may answer to SSL_Socket_Create
SocketCreateResults == {-1} \cup ((0 .. MaxFd - 1) \ openSocks)

\* how far create_and_connect_ssl gets before its retry loop
SetupOutcomes == { "no_ctx", "no_ssl", "no_fd", "ok" }

\* create_and_connect_ssl up to the retry loop: the world at the loop's
\* entry, or at the unwinding when done is TRUE
ConnectSetup(w, sock, outcome) ==
    LET w0 == Log(w, "SSL_Socket_Create", "", sock)
        w1 == [ w0 EXCEPT !.inst.sock = sock, !.openSocks = @ \cup {sock} ]
        w2 == [ Log(w1, "SSL_CTX_new", "", 0) EXCEPT !.liveCtx = @ + 1 ]
        w3 == [ Log(w2, "SSL_new", "", 0) EXCEPT !.liveSsl = @ + 1 ]
        w4 == Log(w3, "SSL_set_fd", "", sock)
    IN  IF sock < 0 THEN [ w |-> w0, done |-> TRUE ]
        ELSE IF outcome = "no_ctx" THEN [ w |-> w1, done |-> TRUE ]
        ELSE IF outcome = "no_ssl" THEN [ w |-> w2, done |-> TRUE ]
        ELSE IF outcome = "no_fd" THEN [ w |-> w4, done |-> TRUE ]
        ELSE [ w |-> w4, done |-> FALSE ]

\* the TLS library has room for the objects the outcome allocates
SetupPossible(sock, outcome) ==
    \/ sock < 0
    \/ outcome = "no_ctx"
    \/ outcome = "no_ssl" /\ liveCtx < MaxObj
    \/ outcome \in { "no_fd", "ok" } /\ liveCtx < MaxObj /\ liveSsl < MaxObj

tlsio_openssl_open(on_io_open_complete, on_bytes_received, on_io_error) ==
    /\ Enter("open", [ NoArgs EXCEPT
                         !.on_io_open_complete = on_io_open_complete,
                         !.on_bytes_received = on_bytes_received,
                         !.on_io_error = on_io_error ])
    /\ UNCHANGED << handle, sinceOpen >>
    /\ IF ~on_bytes_received
       THEN Return(Fresh, FAILURE)
       ELSE IF OpenStateInvalid(tlsio_static_instance.tlsio_state)
       THEN LET w1 == [ SetState(Fresh, TLSIO_STATE_ERROR) EXCEPT
                          !.inst.on_io_error = on_io_error ]
            IN  Return(InvokeIfSet(w1, w1.inst.on_io_error,
                                   "on_io_error", "", 0), FAILURE)
       ELSE \E sock \in SocketCreateResults, outcome \in SetupOutcomes :
            /\ SetupPossible(sock, outcome)
            /\ LET w1 == [ Fresh EXCEPT
                             !.inst.on_io_open_complete = on_io_open_complete,
                             !.inst.on_bytes_received = on_bytes_received,
                             !.inst.on_io_error = on_io_error,
                             !.inst.tlsio_state = TLSIO_STATE_OPENING ]
                   s == ConnectSetup(w1, sock, outcome)
               IN  IF s.done
                   THEN Return(OpenFailed(s.w), FAILURE)
                   ELSE /\ Commit(s.w)
                        /\ pc' = "connect"
                        /\ ret' = -1
                        /\ NoLoopVars

\* the condition of the retry loop, given what SSL_connect returned
ConnectRetries(r, n) == r # 0 /\ n < MAX_RETRY

\* the test after the retry loop
RetryExhausted(n) == n >= MAX_RETRY

\* one evaluation of the retry loop's condition, and what follows the loop
\* when it is false
ConnectStep(r) ==
    /\ pc = "connect"
    /\ nConnect' = nConnect + 1
    /\ connectOK' = (connectOK \/ r = 0)
    /\ UNCHANGED << op, args, preState, handle, size, total_written,
                    bytes_to_send, wants, lastWrite, lastRes, sumWritten >>
    /\ IF ConnectRetries(r, retry)
       THEN /\ retry' = retry + 1
            /\ UNCHANGED << tlsio_static_instance, openSocks, liveSsl,
                            liveCtx, ev, pc, ret, sinceOpen >>
       ELSE /\ retry' = 0
            /\ pc' = "idle"
            /\ IF RetryExhausted(retry)
               THEN /\ Commit(OpenFailed(World))
                    /\ ret' = FAILURE
                    /\ UNCHANGED sinceOpen
               ELSE /\ Commit(OpenSucceeded(World))
                    /\ ret' = 0
                    /\ sinceOpen' = "open"

\* -------------------------------------------------- tlsio_openssl_close
\* a bug CloseStateInvalid could have: only an open connection may close
CloseStateInvalid_AlsoError(s) == s # TLSIO_STATE_OPEN

\* a bug CloseStateInvalid could have: closing a closed connection is let by
CloseStateInvalid_NotOpenAllowed(s) ==
    \/ s = TLSIO_STATE_CLOSING
    \/ s = TLSIO_STATE_OPENING

\* the state test of tlsio_openssl_close
CloseStateInvalid(s) ==
    \/ s = TLSIO_STATE_NOT_OPEN
    \/ s = TLSIO_STATE_CLOSING
    \/ s = TLSIO_STATE_OPENING

PtrArg(p) == IF p THEN "ptr" ELSE "NULL"

tlsio_openssl_close(on_io_close_complete) ==
    /\ Enter("close", [ NoArgs EXCEPT
                          !.on_io_close_complete = on_io_close_complete ])
    /\ sinceOpen' = "no"
    /\ UNCHANGED handle
    /\ IF CloseStateInvalid(tlsio_static_instance.tlsio_state)
       THEN Return(SetState(Fresh, TLSIO_STATE_ERROR), FAILURE)
       ELSE LET w1 == [ SetState(Fresh, TLSIO_STATE_CLOSING) EXCEPT
                          !.inst.on_io_close_complete = on_io_close_complete ]
                w2 == Log(w1, "SSL_shutdown", PtrArg(w1.inst.ssl), 0)
                w3 == destroy_openssl_connection_members(w2)
                w4 == SetState(w3, TLSIO_STATE_NOT_OPEN)
            IN  Return(InvokeIfSet(w4, w4.inst.on_io_close_complete,
                                   "on_io_close_complete", "", 0), 0)

\* --------------------------------------------------- tlsio_openssl_send
\* a bug SendResult could have: any progress counts as success
SendResult_AnyProgress(tw, bts) ==
    IF tw = bts \/ tw > 0 THEN IO_SEND_OK ELSE IO_SEND_ERROR

\* sr, as computed after the write loop
SendResult(tw, bts) == IF tw = bts THEN IO_SEND_OK ELSE IO_SEND_ERROR

\* the part of tlsio_openssl_send after the write loop: w and the result
SendFinish(w, tw, bts, on_send_complete) ==
    [ w |-> InvokeIfSet(w, on_send_complete, "on_send_complete",
                        SendResult(tw, bts), 0),
      result |-> IF SendResult(tw, bts) = IO_SEND_OK THEN 0 ELSE -1 ]

\* a bug SendRejected could have: the state test is missing
SendRejected_NoStateTest(buffer, s) == ~buffer

\* a bug SendRejected could have: the buffer test is missing
SendRejected_NoBufferTest(buffer, s) == s # TLSIO_STATE_OPEN

\* the tests that make tlsio_openssl_send fail before its loop
SendRejected(buffer, s) == ~buffer \/ s # TLSIO_STATE_OPEN

tlsio_openssl_send(buffer, sz, on_send_complete) ==
    /\ Enter("send", [ NoArgs EXCEPT !.buffer = buffer, !.size = sz,
                         !.on_send_complete = on_send_complete ])
    /\ UNCHANGED << handle, sinceOpen >>
    /\ IF SendRejected(buffer, tlsio_static_instance.tlsio_state)
       THEN Return(Fresh, FAILURE)
       ELSE IF sz > 0
       THEN /\ Commit(Fresh)
            /\ pc' = "write"
            /\ ret' = -1
            /\ size' = sz
            /\ bytes_to_send' = sz
            /\ total_written' = 0
            /\ wants' = 0
            /\ lastWrite' = << 0, 0 >>
            /\ lastRes' = NoWrite
            /\ sumWritten' = 0
            /\ retry' = 0
            /\ nConnect' = 0
            /\ connectOK' = FALSE
       ELSE LET f == SendFinish(Fresh, 0, sz, on_send_complete)
            IN  Return(f.w, f.result)

\* what SSL_write may return for num bytes, with the SSL_get_error that
\* classifies a non-positive result
WriteResults(num) ==
    { [ res |-> r, err |-> SSL_ERROR_NONE ] : r \in 1 .. num }
        \cup { [ res |-> r, err |-> e ] : r \in { -1, 0 }, e \in SSL_ERRORS }

\* the result x of SSL_write asks for the same call again
WriteWants(x) ==
    x.res <= 0 /\ x.err \in { SSL_ERROR_WANT_READ, SSL_ERROR_WANT_WRITE }

\* a bug WriteBreaks could have: the break after a fatal status is missing
WriteBreaks_OnlyOnNone(x) == x.res <= 0 /\ x.err = SSL_ERROR_NONE

\* the result x of SSL_write takes one of the write loop's break statements
WriteBreaks(x) == x.res <= 0 /\ ~WriteWants(x)

\* a bug WriteAdvance could have: the write cursor is not moved
WriteAdvance_CursorKept(tw, left, res) ==
    IF res > 0
    THEN [ total_written |-> tw, size |-> left - res ]
    ELSE [ total_written |-> tw, size |-> left ]

\* total_written and size after SSL_write returned res
WriteAdvance(tw, left, res) ==
    IF res > 0
    THEN [ total_written |-> tw + res, size |-> left - res ]
    ELSE [ total_written |-> tw, size |-> left ]

\* one iteration of the write loop, and what follows the loop when it ends;
\* with capped, the transport answers want-read/want-write at most MaxWant
\* times in a row (the code itself counts nothing)
WriteLoop(x, capped) ==
    /\ pc = "write"
    /\ UNCHANGED << op, args, preState, handle, retry, nConnect, connectOK,
                    bytes_to_send, tlsio_static_instance, openSocks, liveSsl,
                    liveCtx, sinceOpen >>
    /\ lastWrite' = << total_written, size >>
    /\ lastRes' = x
    /\ sumWritten' = IF x.res > 0 THEN sumWritten + x.res ELSE sumWritten
    /\ LET a == WriteAdvance(total_written, size, x.res)
           f == SendFinish(World, a.total_written, bytes_to_send,
                           args.on_send_complete)
       IN  /\ capped /\ WriteWants(x) => wants < MaxWant
           /\ total_written' = a.total_written
           /\ size' = a.size
           /\ wants' = IF ~WriteWants(x) THEN 0
                       ELSE IF wants < MaxWant THEN wants + 1 ELSE wants
           /\ IF WriteBreaks(x) \/ a.size = 0
              THEN /\ ev' = f.w.ev
                   /\ ret' = f.result
                   /\ pc' = "idle"
              ELSE UNCHANGED << ev, ret, pc >>

\* an iteration with a transport whose want-read/want-write runs are finite
WriteStep(x) == WriteLoop(x, TRUE)

\* an iteration with a transport that may answer want-read/want-write
\* without end
WriteStepUnbounded(x) == WriteLoop(x, FALSE)

\* ------------------------------------------------- tlsio_openssl_dowork
\* what SSL_read may return for the 64-byte buffer
ReadResults == { -1, 0, 1, 64 }

\* a bug decode_ssl_received_bytes could have: an empty read is delivered
decode_ssl_received_bytes_EmptyToo(w, rcv_bytes) ==
    LET w1 == Log(w, "SSL_read", PtrArg(w.inst.ssl), rcv_bytes)
    IN  IF rcv_bytes >= 0
        THEN Log(w1, "on_bytes_received",
                 PtrArg(w1.inst.on_bytes_received), rcv_bytes)
        ELSE w1

decode_ssl_received_bytes(w, rcv_bytes) ==
    LET w1 == Log(w, "SSL_read", PtrArg(w.inst.ssl), rcv_bytes)
    IN  IF rcv_bytes > 0
        THEN Log(w1, "on_bytes_received",
                 PtrArg(w1.inst.on_bytes_received), rcv_bytes)
        ELSE w1

tlsio_openssl_dowork ==
    /\ Enter("dowork", NoArgs)
    /\ UNCHANGED << handle, sinceOpen >>
    /\ IF tlsio_static_instance.tlsio_state = TLSIO_STATE_OPEN
       THEN \E rcv_bytes \in ReadResults :
                Return(decode_ssl_received_bytes(Fresh, rcv_bytes), 0)
       ELSE Return(Fresh, 0)

\* ----------------------------------------------------------------- Next
Create == \E config, copyOK \in BOOLEAN : tlsio_openssl_create(config, copyOK)

Destroy == tlsio_openssl_destroy

Open == \E oc, obr, oe \in BOOLEAN : tlsio_openssl_open(oc, obr, oe)

Connect == \E r \in { -1, 0 } : ConnectStep(r)

Close == \E cc \in BOOLEAN : tlsio_openssl_close(cc)

Send ==
    \E buffer, sc \in BOOLEAN, sz \in 0 .. MaxSize :
        tlsio_openssl_send(buffer, sz, sc)

Write == \E x \in WriteResults(size) : WriteStep(x)

DoWork == tlsio_openssl_dowork

Next ==
    \/ Create
    \/ Destroy
    \/ Open
    \/ Connect
    \/ Close
    \/ Send
    \/ Write
    \/ DoWork

Spec == Init /\ [][Next]_vars

\* A running send() keeps running: the calling thread goes on with its loop
\* after each ThreadAPI_Sleep(5), and SSL_write always answers.
SpecLive == Init /\ [][Next]_vars /\ WF_vars(Write)

\* The same program with a transport that is free to answer
\* want-read/want-write for ever.
WriteUnbounded == \E x \in WriteResults(size) : WriteStepUnbounded(x)

NextUnbounded ==
    \/ Create
    \/ Destroy
    \/ Open
    \/ Connect
    \/ Close
    \/ Send
    \/ WriteUnbounded
    \/ DoWork

SpecUnbounded == Init /\ [][NextUnbounded]_vars /\ WF_vars(WriteUnbounded)

\* ======================================================================
\* Properties
\* ======================================================================
\* the API call name has returned
Returned(name) == pc = "idle" /\ op = name

\* how often the callback or library function name was called by the call
Calls(name) == CountEv(ev, name)

\* the entries of the call's log named name
Entries(name) == { i \in 1 .. Len(ev) : ev[i].e = name }

C2_Original ==
    Returned("send") /\ args.on_send_complete =>
        Calls("on_send_complete") = 1

\* C2 as amended: a send() call given a non-null on_send_complete has invoked
\* it exactly once when it returns if the buffer is non-null and the state is
\* OPEN, and not at all (returning failure) otherwise; it is never invoked
\* while the write loop is running, nor when it is null.
C2_Amended ==
    /\ Returned("send") /\ args.on_send_complete =>
           IF args.buffer /\ preState = TLSIO_STATE_OPEN
           THEN Calls("on_send_complete") = 1
           ELSE Calls("on_send_complete") = 0 /\ ret # 0
    /\ Returned("send") /\ ~args.on_send_complete =>
           Calls("on_send_complete") = 0
    /\ pc = "write" => Calls("on_send_complete") = 0

\* C2 witness: a send() in state OPEN that retried, came up short, and told
\* its callback once
C2_Witness ==
    /\ Returned("send")
    /\ args.on_send_complete
    /\ args.buffer
    /\ preState = TLSIO_STATE_OPEN
    /\ args.size > 0
    /\ Calls("on_send_complete") = 1

\* ---------------------------------------------------------------- C3
\* a step that is a call of the API function name
Calling(name) == pc = "idle" /\ op' = name

\* C3 as claimed: after an open() that returned 0, an open() with no close()
\* or destroy() in between returns failure and leaves the state ERROR,
\* whatever its arguments.
C3_Original ==
    [][ Calling("open") /\ sinceOpen # "no" =>
            /\ pc' = "idle"
            /\ ret' # 0
            /\ tlsio_static_instance'.tlsio_state = TLSIO_STATE_ERROR ]_vars

\* C3 as amended: after an open() that returned 0, an open() with no close(),
\* destroy() or create() in between returns failure; it leaves the state
\* ERROR when its on_bytes_received is non-null, and leaves the instance
\* as it was when its on_bytes_received is null.
C3_Amended ==
    [][ Calling("open") /\ sinceOpen = "open" =>
            /\ pc' = "idle"
            /\ ret' # 0
            /\ IF args'.on_bytes_received
               THEN tlsio_static_instance'.tlsio_state = TLSIO_STATE_ERROR
               ELSE UNCHANGED tlsio_static_instance ]_vars

\* C3 witness: a second open() right on an open connection was refused
C3_Witness ==
    /\ Returned("open")
    /\ sinceOpen = "open"
    /\ preState = TLSIO_STATE_OPEN
    /\ args.on_bytes_received
    /\ ret # 0
    /\ tlsio_static_instance.tlsio_state = TLSIO_STATE_ERROR

\* ---------------------------------------------------------------- C4
\* an open() call that got past its argument and state tests has returned
HandshakeReturned ==
    /\ Returned("open")
    /\ preState = TLSIO_STATE_NOT_OPEN
    /\ args.on_bytes_received

\* C4 as claimed: an open() in state NOT_OPEN with a non-null
\* on_bytes_received either had an SSL_connect of its own return success, and
\* then returns 0 in state OPEN having invoked a registered on_open_complete
\* once, in state OPEN, and on_error not at all; or else returns failure in
\* state ERROR having invoked a registered on_error once and
\* on_open_complete not at all.
C4_Claim ==
    HandshakeReturned =>
        IF connectOK
        THEN /\ ret = 0
             /\ tlsio_static_instance.tlsio_state = TLSIO_STATE_OPEN
             /\ Calls("on_io_open_complete")
                    = (IF args.on_io_open_complete THEN 1 ELSE 0)
             /\ \A i \in Entries("on_io_open_complete") :
                    ev[i].st = TLSIO_STATE_OPEN
             /\ Calls("on_io_error") = 0
        ELSE /\ ret # 0
             /\ tlsio_static_instance.tlsio_state = TLSIO_STATE_ERROR
             /\ Calls("on_io_error") = (IF args.on_io_error THEN 1 ELSE 0)
             /\ Calls("on_io_open_complete") = 0

\* ---------------------------------------------------------------- C5
\* C5 as claimed: one open() call makes at most MAX_RETRY (20) calls of
\* SSL_connect.
C5_Claim == nConnect <= MAX_RETRY

\* ---------------------------------------------------------------- C6
\* the sockets, contexts and sessions the call acquired
AcquiredSocks ==
    Cardinality({ i \in Entries("SSL_Socket_Create") : ev[i].n >= 0 })

\* the open descriptors the call closed at the socket provider
ClosedSocks ==
    Cardinality({ i \in Entries("SSL_Socket_Close") : ev[i].n >= 0 })

\* C6 as claimed: when an open() that started the handshake procedure
\* returns failure, each socket, context and session it acquired has been
\* released once, and the instance holds no session, no context and no open
\* socket.
C6_Claim ==
    HandshakeReturned /\ ret # 0 =>
        /\ ClosedSocks = AcquiredSocks
        /\ Calls("SSL_CTX_free") = Calls("SSL_CTX_new")
        /\ Calls("SSL_free") = Calls("SSL_new")
        /\ ~tlsio_static_instance.ssl
        /\ ~tlsio_static_instance.ssl_context
        /\ tlsio_static_instance.sock \notin openSocks

\* ---------------------------------------------------------------- C7
\* C7: a close() called in state OPEN or ERROR returns 0 with the state
\* NOT_OPEN, and has invoked the close-completion callback it was given, if
\* any, exactly once, with the state already NOT_OPEN.
C7_CloseSucceeds ==
    Returned("close") /\ preState \in { TLSIO_STATE_OPEN, TLSIO_STATE_ERROR } =>
        /\ ret = 0
        /\ tlsio_static_instance.tlsio_state = TLSIO_STATE_NOT_OPEN
        /\ Calls("on_io_close_complete")
               = (IF args.on_io_close_complete THEN 1 ELSE 0)
        /\ \A i \in Entries("on_io_close_complete") :
               ev[i].st = TLSIO_STATE_NOT_OPEN

\* C7 witness: a close() in state ERROR told its callback and returned 0
C7_Witness ==
    /\ Returned("close")
    /\ preState = TLSIO_STATE_ERROR
    /\ args.on_io_close_complete
    /\ ret = 0
    /\ Calls("on_io_close_complete") = 1
    /\ tlsio_static_instance.tlsio_state = TLSIO_STATE_NOT_OPEN

\* ---------------------------------------------------------------- C8
\* C8 as claimed: a close() called in state OPEN has freed the session once
\* and the context once and closed the socket once at the socket provider
\* when it returns; and between calls, from the open() that returned 0 to
\* the return of that close(), the instance holds a session exactly when its
\* socket is open at the provider.
C8_Claim ==
    /\ Returned("close") /\ preState = TLSIO_STATE_OPEN =>
           /\ Calls("SSL_free") = 1
           /\ Calls("SSL_CTX_free") = 1
           /\ ClosedSocks = 1
    /\ pc = "idle"
       /\ (sinceOpen = "open"
              \/ (Returned("close") /\ preState = TLSIO_STATE_OPEN)) =>
           (tlsio_static_instance.ssl
                <=> tlsio_static_instance.sock \in openSocks)

\* ---------------------------------------------------------------- C9
\* C9: a close() called in state NOT_OPEN, OPENING or CLOSING returns
\* failure and sets the state to ERROR; it invokes no callback, calls no
\* library function, and changes nothing else of the instance or of the
\* resources held.
C9_CloseRejected ==
    [][ Calling("close")
        /\ tlsio_static_instance.tlsio_state
               \in { TLSIO_STATE_NOT_OPEN, TLSIO_STATE_OPENING,
                     TLSIO_STATE_CLOSING } =>
            /\ pc' = "idle"
            /\ ret' # 0
            /\ ev' = << >>
            /\ tlsio_static_instance' =
                   [ tlsio_static_instance EXCEPT
                       !.tlsio_state = TLSIO_STATE_ERROR ]
            /\ UNCHANGED << openSocks, liveSsl, liveCtx >> ]_vars

\* C9 witness: a close() on a closed connection was refused
C9_Witness ==
    /\ Returned("close")
    /\ preState = TLSIO_STATE_NOT_OPEN
    /\ args.on_io_close_complete
    /\ ret # 0
    /\ ev = << >>
    /\ tlsio_static_instance.tlsio_state = TLSIO_STATE_ERROR

\* --------------------------------------------------------------- C10
\* the library calls in the log of the step's call (callbacks are not)
LibraryCalls(log) ==
    { i \in 1 .. Len(log) :
        log[i].e \notin { "on_io_error", "on_io_open_complete",
                          "on_io_close_complete", "on_send_complete",
                          "on_bytes_received" } }

\* a call of open(), send() or dowork() in state ERROR is blocked: it returns
\* at once (open and send with failure), calls no library function and
\* leaves the state ERROR
BlockedInError ==
    /\ pc' = "idle"
    /\ op' # "dowork" => ret' # 0
    /\ LibraryCalls(ev') = {}
    /\ tlsio_static_instance'.tlsio_state = TLSIO_STATE_ERROR

\* C10 as claimed: in state ERROR every open(), send(), close() and dowork()
\* call is blocked and leaves the state ERROR.
C10_Original ==
    [][ pc = "idle"
        /\ tlsio_static_instance.tlsio_state = TLSIO_STATE_ERROR
        /\ op' \in { "open", "send", "close", "dowork" } =>
            BlockedInError ]_vars

\* C10 as amended: in state ERROR every open(), send() and dowork() call is
\* blocked and leaves the state ERROR; a close() is accepted: it returns 0
\* and resets the state to NOT_OPEN.
C10_Amended ==
    [][ pc = "idle"
        /\ tlsio_static_instance.tlsio_state = TLSIO_STATE_ERROR =>
            /\ op' \in { "open", "send", "dowork" } => BlockedInError
            /\ op' = "close" =>
                   /\ pc' = "idle"
                   /\ ret' = 0
                   /\ tlsio_static_instance'.tlsio_state
                          = TLSIO_STATE_NOT_OPEN ]_vars

\* C10 witness: an open() with all its callbacks, made in state ERROR, was
\* refused
C10_Witness ==
    /\ Returned("open")
    /\ preState = TLSIO_STATE_ERROR
    /\ args.on_bytes_received
    /\ args.on_io_error
    /\ ret # 0
    /\ Calls("on_io_error") = 1
    /\ tlsio_static_instance.tlsio_state = TLSIO_STATE_ERROR

\* --------------------------------------------------------------- C11
\* C11 as claimed: between API calls the instance holds a session only if
\* the state is OPEN.
C11_Original ==
    pc = "idle" /\ tlsio_static_instance.ssl =>
        tlsio_static_instance.tlsio_state = TLSIO_STATE_OPEN

\* C11 as amended: between API calls the instance holds a session only if
\* the state is OPEN or ERROR (a session never coexists with state NOT_OPEN,
\* OPENING or CLOSING).
C11_Amended ==
    pc = "idle" /\ tlsio_static_instance.ssl =>
        tlsio_static_instance.tlsio_state
            \in { TLSIO_STATE_OPEN, TLSIO_STATE_ERROR }

\* C11 witness: an open() refused on an open connection has left the state
\* ERROR with the session still held
C11_Witness ==
    /\ Returned("open")
    /\ preState = TLSIO_STATE_OPEN
    /\ tlsio_static_instance.ssl
    /\ tlsio_static_instance.tlsio_state = TLSIO_STATE_ERROR

\* --------------------------------------------------------------- C12
\* C12 as claimed: a create() call made while a created connection has not
\* been destroyed (its hostname copy is held) returns a null handle and
\* leaves the instance as it was.
C12_Claim ==
    [][ Calling("create") /\ tlsio_static_instance.hostname =>
            /\ ~handle'
            /\ UNCHANGED tlsio_static_instance ]_vars

\* --------------------------------------------------------------- C13
\* C13 as claimed: on_error is invoked only by an open() called in a state
\* other than NOT_OPEN.
C13_Original ==
    Calls("on_io_error") > 0 =>
        op = "open" /\ preState # TLSIO_STATE_NOT_OPEN

\* C13 as amended: on_error is invoked on exactly two call paths, both in
\* open() with a non-null on_bytes_received: open() called in a state other
\* than NOT_OPEN, and open() whose handshake procedure fails.  Each such
\* open() returns failure having invoked a non-null on_error exactly once;
\* no other call (send, dowork, close, create, destroy, a successful open)
\* invokes it.
C13_Amended ==
    /\ Calls("on_io_error") > 0 =>
           /\ Returned("open")
           /\ args.on_bytes_received
           /\ ret # 0
    /\ Returned("open") /\ args.on_bytes_received /\ ret # 0 =>
           Calls("on_io_error") = (IF args.on_io_error THEN 1 ELSE 0)

\* C13 witness: an open() whose handshake procedure failed has invoked
\* on_error
C13_Witness ==
    /\ HandshakeReturned
    /\ ret # 0
    /\ args.on_io_error
    /\ Calls("on_io_error") = 1

\* --------------------------------------------------------------- C14
\* C14: dowork() leaves the connection state as it found it.  Called in a
\* state other than OPEN it makes no library call and invokes no callback;
\* called in state OPEN it calls SSL_read exactly once and nothing else but
\* on_bytes_received, which it invokes exactly once, with the count SSL_read
\* returned, if that count is positive, and not at all otherwise.
C14_DoWork ==
    Returned("dowork") =>
        /\ tlsio_static_instance.tlsio_state = preState
        /\ preState # TLSIO_STATE_OPEN => ev = << >>
        /\ preState = TLSIO_STATE_OPEN =>
               /\ Calls("SSL_read") = 1
               /\ ev[1].e = "SSL_read"
               /\ \A i \in 1 .. Len(ev) :
                      ev[i].e \in { "SSL_read", "on_bytes_received" }
               /\ IF ev[1].n > 0
                  THEN /\ Calls("on_bytes_received") = 1
                       /\ \A i \in Entries("on_bytes_received") :
                              ev[i].n = ev[1].n
                  ELSE Calls("on_bytes_received") = 0

\* C14 witness: a dowork() in state OPEN has delivered a full buffer
C14_Witness ==
    /\ Returned("dowork")
    /\ preState = TLSIO_STATE_OPEN
    /\ Calls("SSL_read") = 1
    /\ \E i \in Entries("on_bytes_received") : ev[i].n = 64

\* --------------------------------------------------------------- C15
\* a send() call that ran the write loop has returned
WriteLoopReturned ==
    /\ Returned("send")
    /\ args.buffer
    /\ preState = TLSIO_STATE_OPEN
    /\ args.size > 0

\* C15 as claimed: when the write loop of send() is ended by a non-positive
\* SSL_write result whose SSL_get_error is SSL_ERROR_NONE, send() returns 0
\* and a completion callback gets IO_SEND_OK.
C15_Claim ==
    WriteLoopReturned /\ lastRes.res <= 0 /\ lastRes.err = SSL_ERROR_NONE =>
        /\ ret = 0
        /\ \A i \in Entries("on_send_complete") : ev[i].arg = IO_SEND_OK

\* --------------------------------------------------------------- C16
\* C16: each SSL_write of a send(buffer, size) call is made at the offset
\* that is the sum of the call's earlier positive results, for the length
\* size minus that sum, which is positive; the loop goes on to another
\* attempt exactly when the result was want-read/want-write, or positive and
\* less than the length asked for.
C16_UnsentSuffix ==
    [][ pc = "write" =>
            /\ lastWrite' = << sumWritten, args.size - sumWritten >>
            /\ args.size - sumWritten > 0
            /\ pc' = "write" <=>
                   IF lastRes'.res > 0
                   THEN lastRes'.res < args.size - sumWritten
                   ELSE lastRes'.err \in { SSL_ERROR_WANT_READ,
                                           SSL_ERROR_WANT_WRITE }
            /\ pc' # "write" => pc' = "idle" ]_vars

\* C16 witness: after a partial write and a want-read/want-write answer, the
\* rest of the buffer was offered again
C16_Witness ==
    /\ op = "send"
    /\ lastWrite[1] > 0
    /\ lastWrite[2] > 0
    /\ wants > 0

\* --------------------------------------------------------------- C17
\* C17: no step of a send() call changes the instance (its state, session,
\* context and socket among its fields) or the resources held by the socket
\* provider and the TLS library; and a send() given a null buffer or called
\* in a state other than OPEN returns failure at once, with no SSL_write and
\* no callback.
C17_SendFrame ==
    [][ Calling("send") \/ pc = "write" =>
            /\ UNCHANGED << tlsio_static_instance, openSocks, liveSsl,
                            liveCtx >>
            /\ Calling("send")
               /\ (~args'.buffer
                     \/ tlsio_static_instance.tlsio_state # TLSIO_STATE_OPEN) =>
                   /\ pc' = "idle"
                   /\ ret' # 0
                   /\ ev' = << >>
                   /\ lastRes' = NoWrite ]_vars

\* C17 witness: a send() ended by a fatal write error has left the state
\* OPEN
C17_Witness ==
    /\ WriteLoopReturned
    /\ lastRes.res <= 0
    /\ lastRes.err = SSL_ERROR_SSL
    /\ ret # 0
    /\ tlsio_static_instance.tlsio_state = TLSIO_STATE_OPEN

\* --------------------------------------------------------------- C18
\* C18: with a transport whose runs of want-read/want-write answers are
\* finite and whose positive results do not exceed the length asked for, a
\* send() that entered its write loop eventually returns, having invoked the
\* completion callback it was given, if any, once.  (Under SpecUnbounded,
\* where the transport may answer want-read/want-write for ever, this
\* property fails: the loop has no bound of its own.)
C18_SendReturns ==
    pc = "write" ~>
        /\ Returned("send")
        /\ Calls("on_send_complete")
               = (IF args.on_send_complete THEN 1 ELSE 0)

\* C18 witness: a send() has returned after the transport made it wait as
\* long as it may and then took the whole buffer
C18_Witness ==
    /\ WriteLoopReturned
    /\ lastWrite[1] > 0
    /\ lastRes.res > 0
    /\ sumWritten = args.size
    /\ ret = 0

\* --------------------------------------------------------------- C19
\* C19: SSL_write, SSL_read and SSL_shutdown are only ever called with a
\* non-null session: every logged SSL_read and SSL_shutdown got a pointer,
\* and a send() in its write loop, which hands the stored session to
\* SSL_write, has one.
C19_Claim ==
    /\ \A i \in DOMAIN ev :
           ev[i].e \in { "SSL_read", "SSL_shutdown" } => ev[i].arg = PtrArg(TRUE)
    /\ pc = "write" => tlsio_static_instance.ssl

\* --------------------------------------------------------------- C20
\* the states an adapter can be found in between two calls
RestingStates == { TLSIO_STATE_NOT_OPEN, TLSIO_STATE_OPEN, TLSIO_STATE_ERROR }

\* C20: with serialized calls, the state after every call that has returned
\* is NOT_OPEN, OPEN or ERROR, and so is the state every call arrives in;
\* OPENING is seen only inside a running open() and CLOSING only inside a
\* running close(), so no open() or close() arrives in OPENING or CLOSING.
C20_RestingStates ==
    /\ pc = "idle" => tlsio_static_instance.tlsio_state \in RestingStates
    /\ pc = "connect" =>
           op = "open" /\ tlsio_static_instance.tlsio_state = TLSIO_STATE_OPENING
    /\ pc = "write" =>
           op = "send" /\ tlsio_static_instance.tlsio_state = TLSIO_STATE_OPEN
    /\ preState \in RestingStates
    /\ \A i \in DOMAIN ev :
           /\ ev[i].st = TLSIO_STATE_OPENING => op = "open"
           /\ ev[i].st = TLSIO_STATE_CLOSING => op = "close"

\* C20 witness: an open() whose handshake ran out of retries in OPENING has
\* returned failure and left the state ERROR
C20_Witness ==
    /\ HandshakeReturned
    /\ ret # 0
    /\ nConnect > 0
    /\ \E i \in DOMAIN ev : ev[i].st = TLSIO_STATE_OPENING
    /\ tlsio_static_instance.tlsio_state = TLSIO_STATE_ERROR

====
